---- MODULE Spec2Model ----
(***************************************************************************)
(* A model of mtraver/temperature_logger:                                  *)
(*   - log_temp.py: the command-line run (argument checks, sampling loop,  *)
(*     log_to_csv, spreadsheet append, stdout fallback);                   *)
(*   - client_python/loggers/base_logger.py: validate_measurement and      *)
(*     GCPLogger._get_proto (builds, then validates);                      *)
(*   - loggers/base_logger.py: the older GCPLogger._get_proto (builds      *)
(*     only).                                                              *)
(* Three specifications share the variables: SpecMain (log_temp.py),       *)
(* SpecValidate (validate_measurement alone) and SpecLogger (_get_proto    *)
(* called from two call sites on one logger).                              *)
(***************************************************************************)
EXTENDS Integers, Sequences, FiniteSets, TLC

VARIABLES
  \* ---- log_temp.py ----
  pcMain,      \* position of the __main__ block
  args,        \* argparse namespace (log_file, keyfile, sheet_id, num_samples)
  data,        \* the row being collected: <<timestamp, reading, ...>>
  sampleIdx,   \* loop variable i of the sampling loop
  csvFile,     \* the CSV file on disk: [exists, rows]
  pcCsv,       \* position inside log_to_csv
  writeHeader, \* local write_header of log_to_csv
  sinks,       \* what this run has emitted so far, in order: [sink, row]
  runs,        \* number of runs of log_temp.py started so far (also the clock)
  csvCalls,    \* number of log_to_csv calls that have returned
  \* ---- validate_measurement ----
  rules,       \* the schema's regex option per field (NoRule where absent)
  msg,         \* the Measurement handed to validate_measurement
  pcVal,       \* position inside validate_measurement
  fieldIdx,    \* index into measurement.ListFields()
  visited,     \* fields whose rule has been tested, in order
  valResult,   \* outcome of the validation that finished last
  prevResult,  \* outcome of the validation before that, for the same msg
  \* ---- GCPLogger ----
  pyDivision,  \* what "/" does on two ints: "floor" (Python 2) or "true" (Python 3)
  impl,        \* which GCPLogger: "client_python" or "loggers"
  logger,      \* the logger object: [project_id, device_id]
  ctorArgs,    \* what the constructor was given
  call         \* per call site: the frame of its _get_proto call

vars == <<pcMain, args, data, sampleIdx, csvFile, pcCsv, writeHeader, sinks,
          runs, csvCalls, rules, msg, pcVal, fieldIdx, visited, valResult,
          prevResult, pyDivision, impl, logger, ctorArgs, call>>

mainVars == <<pcMain, args, data, sampleIdx, csvFile, pcCsv, writeHeader,
              sinks, runs, csvCalls>>
valVars == <<rules, msg, pcVal, fieldIdx, visited, valResult, prevResult>>
loggerVars == <<pyDivision, impl, logger, ctorArgs, call>>

(***************************************************************************)
(* Bounds                                                                  *)
(***************************************************************************)
MaxRuns == 3        \* runs of log_temp.py
MaxSamples == 2     \* largest -n/--num_samples
MaxStrLen == 2      \* longest device_id
MaxPatLen == 1      \* longest literal of a regex
MaxValues == 2      \* longest values list given to _get_proto

None == "None"

(***************************************************************************)
(* log_temp.py                                                             *)
(***************************************************************************)
\* Sensor readings (sensor.readTempC()), in degrees Celsius.
SensorTemps == {20, 21}

\* The namespaces parse_args can return. non_empty_string makes each of the
\* three strings either absent (None) or a non-empty string; -n is any int,
\* and xrange(n) is empty for n <= 0, so 0 stands for every n <= 0.
ArgSpace ==
  [log_file : {None, "temps.csv"},
   keyfile : {None, "key.json"},
   sheet_id : {None, "sheet1"},
   num_samples : 0..MaxSamples]

\* Python truthiness of an optional string argument.
Truthy(a) == a # None /\ a # ""

HeaderRow(n) == [kind |-> "header", cells |-> [i \in 1..n |-> i]]
DataRow(d) == [kind |-> "data", cells |-> d]

\* os.path.isfile(filename) and os.stat(filename).st_size of the CSV file.
\* Every row csv.writer writes is at least a line terminator, so the size is
\* zero exactly when the file holds no row.
NoFile == [exists |-> FALSE, rows |-> <<>>]
EmptyFile == [exists |-> TRUE, rows |-> <<>>]
IsFile(f) == f.exists
StSize(f) == Len(f.rows)

\* The namespace before parse_args has run.
NoArgs == [log_file |-> None, keyfile |-> None, sheet_id |-> None,
           num_samples |-> 0]

\* Values the variables of the parts that are not running are held at.
IdleMsg ==
  [device_id |-> <<>>, timestamp |-> [seconds |-> 0, nanos |-> 0],
   temp |-> [kind |-> "float", n |-> 0, d |-> 1]]
IdleResult ==
  [kind |-> "none", field |-> None, value |-> <<>>,
   regex |-> [has |-> FALSE, lit |-> <<>>, end |-> FALSE]]
IdleCallFrame ==
  [pc |-> "idle", timestamp |-> [sec |-> 0, usec |-> 0], values |-> <<>>,
   timestamp_proto |-> [seconds |-> 0, nanos |-> 0],
   mean_temp |-> [kind |-> "int", n |-> 0, d |-> 1], proto |-> IdleMsg,
   validated |-> FALSE, attempted |-> FALSE,
   result |-> [kind |-> "none", proto |-> IdleMsg]]
IdleCalls == [c \in {"site1", "site2"} |-> IdleCallFrame]

InitMain ==
  /\ pcMain = "start"
  /\ args = NoArgs
  /\ data = <<>>
  /\ sampleIdx = 0
  /\ csvFile \in {NoFile, EmptyFile}
  /\ pcCsv = "none"
  /\ writeHeader = FALSE
  /\ sinks = <<>>
  /\ runs = 0
  /\ csvCalls = 0
  /\ rules = [f \in {"device_id", "timestamp", "temp"} |->
               [has |-> FALSE, lit |-> <<>>, end |-> FALSE]]
  /\ msg = IdleMsg
  /\ pcVal = "idle"
  /\ fieldIdx = 0
  /\ visited = <<>>
  /\ valResult = IdleResult
  /\ prevResult = IdleResult
  /\ pyDivision = "true"
  /\ impl = "client_python"
  /\ ctorArgs = [project_id |-> <<"p">>, device_id |-> <<"a">>]
  /\ logger = [_project_id |-> <<"p">>, _device_id |-> <<"a">>]
  /\ call = IdleCalls

\* args = parser.parse_args()
ParseArgs ==
  /\ pcMain = "start"
  /\ runs < MaxRuns
  /\ \E a \in ArgSpace : args' = a
  /\ runs' = runs + 1
  /\ pcMain' = "parsed"
  /\ UNCHANGED <<data, sampleIdx, csvFile, pcCsv, writeHeader, sinks, csvCalls>>
  /\ UNCHANGED <<valVars, loggerVars>>

\* -k/--keyfile and -s/--sheet_id are mutually inclusive: parser.error exits.
CheckArgs ==
  /\ pcMain = "parsed"
  /\ IF (args.keyfile # None /\ args.sheet_id = None)
        \/ (args.keyfile = None /\ args.sheet_id # None)
     THEN pcMain' = "usage_error" /\ UNCHANGED <<data, sampleIdx>>
     ELSE /\ pcMain' = "sampling"
          /\ data' = <<runs>>          \* [datetime.utcnow().isoformat()]
          /\ sampleIdx' = 0
  /\ UNCHANGED <<args, csvFile, pcCsv, writeHeader, sinks, runs, csvCalls>>
  /\ UNCHANGED <<valVars, loggerVars>>

\* One iteration of: for i in xrange(args.num_samples): data.append(readTempC())
Sample ==
  /\ pcMain = "sampling"
  /\ sampleIdx < args.num_samples
  /\ \E t \in SensorTemps : data' = Append(data, t)
  /\ sampleIdx' = sampleIdx + 1
  /\ UNCHANGED <<pcMain, args, csvFile, pcCsv, writeHeader, sinks, runs, csvCalls>>
  /\ UNCHANGED <<valVars, loggerVars>>

\* Loop exit, then "if args.log_file:" enters log_to_csv or skips it.
SamplingDone ==
  /\ pcMain = "sampling"
  /\ sampleIdx >= args.num_samples
  /\ IF Truthy(args.log_file)
     THEN pcMain' = "in_log_to_csv" /\ pcCsv' = "stat"
     ELSE pcMain' = "sheet" /\ pcCsv' = pcCsv
  /\ UNCHANGED <<args, data, sampleIdx, csvFile, writeHeader, sinks, runs, csvCalls>>
  /\ UNCHANGED <<valVars, loggerVars>>

\* write_header = not os.path.isfile(filename) or os.stat(filename).st_size == 0
WriteHeaderDropsEmptyCheck(f) == ~IsFile(f)
WriteHeaderTest(f) == ~IsFile(f) \/ StSize(f) = 0

CsvStat ==
  /\ pcCsv = "stat"
  /\ writeHeader' = WriteHeaderTest(csvFile)
  /\ pcCsv' = "open"
  /\ UNCHANGED <<pcMain, args, data, sampleIdx, csvFile, sinks, runs, csvCalls>>
  /\ UNCHANGED <<valVars, loggerVars>>

\* open(filename, 'a'): creates the file if it is missing, keeps its content.
CsvOpen ==
  /\ pcCsv = "open"
  /\ csvFile' = [csvFile EXCEPT !.exists = TRUE]
  /\ pcCsv' = "header"
  /\ UNCHANGED <<pcMain, args, data, sampleIdx, writeHeader, sinks, runs, csvCalls>>
  /\ UNCHANGED <<valVars, loggerVars>>

\* if write_header: csv_writer.writerow([DATE_COL_HEADER] + ['Temp%d' ...])
CsvHeader ==
  /\ pcCsv = "header"
  /\ csvFile' = IF writeHeader
                THEN [csvFile EXCEPT
                        !.rows = Append(@, HeaderRow(args.num_samples))]
                ELSE csvFile
  /\ pcCsv' = "row"
  /\ UNCHANGED <<pcMain, args, data, sampleIdx, writeHeader, sinks, runs, csvCalls>>
  /\ UNCHANGED <<valVars, loggerVars>>

\* csv_writer.writerow(data); the with-block closes the file; return to main.
CsvRow ==
  /\ pcCsv = "row"
  /\ csvFile' = [csvFile EXCEPT !.rows = Append(@, DataRow(data))]
  /\ sinks' = Append(sinks, [sink |-> "file", row |-> data])
  /\ csvCalls' = csvCalls + 1
  /\ pcCsv' = "none"
  /\ pcMain' = "sheet"
  /\ UNCHANGED <<args, data, sampleIdx, writeHeader, runs>>
  /\ UNCHANGED <<valVars, loggerVars>>

\* if args.keyfile: google_sheets_logger.append_to_sheet(keyfile, sheet_id, [data])
LogSheet ==
  /\ pcMain = "sheet"
  /\ sinks' = IF Truthy(args.keyfile)
              THEN Append(sinks, [sink |-> "sheet", row |-> data])
              ELSE sinks
  /\ pcMain' = "stdout"
  /\ UNCHANGED <<args, data, sampleIdx, csvFile, pcCsv, writeHeader, runs, csvCalls>>
  /\ UNCHANGED <<valVars, loggerVars>>

\* if not args.log_file and not args.keyfile: print ','.join(...)
StdoutGuardIgnoresKeyfile(a) == ~Truthy(a.log_file)
StdoutGuard(a) == ~Truthy(a.log_file) /\ ~Truthy(a.keyfile)

LogStdout ==
  /\ pcMain = "stdout"
  /\ sinks' = IF StdoutGuard(args)
              THEN Append(sinks, [sink |-> "stdout", row |-> data])
              ELSE sinks
  /\ pcMain' = "done"
  /\ UNCHANGED <<args, data, sampleIdx, csvFile, pcCsv, writeHeader, runs, csvCalls>>
  /\ UNCHANGED <<valVars, loggerVars>>

\* The process ends; the next invocation starts from a fresh interpreter and
\* finds the CSV file as this one left it.
NextRun ==
  /\ pcMain \in {"done", "usage_error"}
  /\ runs < MaxRuns
  /\ pcMain' = "start"
  /\ args' = NoArgs
  /\ data' = <<>>
  /\ sampleIdx' = 0
  /\ sinks' = <<>>
  /\ writeHeader' = FALSE
  /\ UNCHANGED <<csvFile, pcCsv, runs, csvCalls>>
  /\ UNCHANGED <<valVars, loggerVars>>


NextMain ==
  \/ ParseArgs
  \/ CheckArgs
  \/ Sample
  \/ SamplingDone
  \/ CsvStat
  \/ CsvOpen
  \/ CsvHeader
  \/ CsvRow
  \/ LogSheet
  \/ LogStdout
  \/ NextRun

(***************************************************************************)
(* Values of the Measurement's fields                                      *)
(***************************************************************************)
\* Characters of device ids and of regex literals.
Chars == {"a", "b"}
Strings(n) == UNION {[1..k -> Chars] : k \in 0..n}

\* A Python number: kind "int" or "float", value n/d in lowest terms, d > 0.
RECURSIVE Gcd(_, _)
Gcd(a, b) == IF b = 0 THEN a ELSE Gcd(b, a % b)
Abs(x) == IF x < 0 THEN -x ELSE x
Norm(n, d) == LET g == Gcd(Abs(n), d) IN [n |-> n \div g, d |-> d \div g]
PyInt(n) == [kind |-> "int", n |-> n, d |-> 1]
PyFloat(n, d) == [kind |-> "float", n |-> Norm(n, d).n, d |-> Norm(n, d).d]

\* A datetime.datetime (seconds and microseconds since the epoch) and
\* timestamp_pb2.Timestamp.FromDatetime, which stores seconds and nanos.
\* The timestamps given are after the epoch.
Datetimes == {[sec |-> 1, usec |-> 0], [sec |-> 2, usec |-> 5]}
FromDatetime(dt) == [seconds |-> dt.sec, nanos |-> dt.usec * 1000]

\* float(x) of a Python number.
PyFloatOf(v) == [kind |-> "float", n |-> v.n, d |-> v.d]

\* Assigning a Python number to the proto's floating-point temp field
\* (values are exact here; rounding to the field's width is left out).
ToProtoFloat(v) == [kind |-> "float", n |-> v.n, d |-> v.d]

\* measurement_pb2.Measurement(device_id=..., timestamp=..., temp=...)
Measurement(device_id, timestamp, temp) ==
  [device_id |-> device_id, timestamp |-> timestamp, temp |-> ToProtoFloat(temp)]

(***************************************************************************)
(* The schema (measurement_pb2): fields, their order and their options     *)
(***************************************************************************)
\* The Measurement's fields in field-number order.
FieldOrder == <<"device_id", "timestamp", "temp">>
Fields == {FieldOrder[i] : i \in 1..Len(FieldOrder)}

\* The Python type ListFields yields for a field's value: device_id is a
\* string, timestamp a Timestamp message, temp a float.
IsStr(f) == f = "device_id"

\* A regex option: a literal, optionally followed by the end anchor "$".
NoRule == [has |-> FALSE, lit |-> <<>>, end |-> FALSE]
Regexes == [has : {TRUE}, lit : Strings(MaxPatLen), end : BOOLEAN]
\* The one regex tried on the non-string fields: the literal "1".
DigitRule == [has |-> TRUE, lit |-> <<"1">>, end |-> FALSE]

Schemas ==
  {[f \in Fields |-> IF f = "device_id" THEN r
                     ELSE IF f = "timestamp" THEN t ELSE u] :
     r \in Regexes \cup {NoRule}, t \in {NoRule, DigitRule},
     u \in {NoRule, DigitRule}}

\* Whether field f of m is listed by ListFields: a string or a number is
\* listed unless it has its default value, the timestamp message because
\* the constructor was given one.
IsSet(m, f) ==
  IF f = "device_id" THEN m.device_id # <<>>
  ELSE IF f = "timestamp" THEN TRUE
  ELSE m.temp.n # 0

\* measurement.ListFields(): the set fields, in field-number order.
RECURSIVE ListFieldsFrom(_, _)
ListFieldsFrom(m, i) ==
  IF i > Len(FieldOrder) THEN <<>>
  ELSE (IF IsSet(m, FieldOrder[i]) THEN <<FieldOrder[i]>> ELSE <<>>)
       \o ListFieldsFrom(m, i + 1)
ListFields(m) == ListFieldsFrom(m, 1)

(***************************************************************************)
(* validate_measurement                                                    *)
(***************************************************************************)
IsPrefix(p, s) == Len(p) <= Len(s) /\ SubSeq(s, 1, Len(p)) = p

\* re.match(regex, value) on a string: the pattern must match starting at
\* position 0; "$" then requires the match to end where the string ends.
\* (Strings here hold no newline, before which "$" would also match.)
ReSearch(regex, s) ==
  \E k \in 0..Len(s) :
    /\ IsPrefix(regex.lit, SubSeq(s, k + 1, Len(s)))
    /\ regex.end => k + Len(regex.lit) = Len(s)
ReMatch(regex, s) ==
  /\ IsPrefix(regex.lit, s)
  /\ regex.end => Len(regex.lit) = Len(s)

NoResult == IdleResult
Accepted == [kind |-> "accepted", field |-> None, value |-> <<>>, regex |-> NoRule]
TypeErrorAt(f) ==
  [kind |-> "TypeError", field |-> f, value |-> <<>>, regex |-> NoRule]
\* InvalidProtoError('Field failed regex validation. Field: "{}" Value: "{}"
\* Regex: "{}"'.format(field_desc.name, value, regex))
InvalidProtoError(f, value, regex) ==
  [kind |-> "InvalidProtoError", field |-> f, value |-> value, regex |-> regex]

\* The loop body for one listed field: "skip" (no regex option), "pass",
\* or the exception raised. re.match raises TypeError when the value is not
\* a string.
CheckField(r, m, f) ==
  IF ~r[f].has THEN [kind |-> "skip"]
  ELSE IF ~IsStr(f) THEN TypeErrorAt(f)
  ELSE IF ReMatch(r[f], m[f]) THEN [kind |-> "pass"]
  ELSE InvalidProtoError(f, m[f], r[f])

\* The whole call, from the i-th listed field on: Accepted, or what it raises.
RECURSIVE ValidateFrom(_, _, _)
ValidateFrom(r, m, i) ==
  IF i > Len(ListFields(m)) THEN Accepted
  ELSE LET c == CheckField(r, m, ListFields(m)[i])
       IN IF c.kind \in {"skip", "pass"} THEN ValidateFrom(r, m, i + 1) ELSE c
validate_measurement(r, m) == ValidateFrom(r, m, 1)

\* Measurements handed to validate_measurement on its own.
ValTemps == {PyFloat(0, 1), PyFloat(1, 1), PyFloat(2, 1)}
ValMeasurements ==
  {Measurement(d, FromDatetime(dt), t) :
     d \in Strings(MaxStrLen), dt \in Datetimes, t \in ValTemps}

InitValidate ==
  /\ rules \in Schemas
  /\ msg \in ValMeasurements
  /\ pcVal = "idle"
  /\ fieldIdx = 0
  /\ visited = <<>>
  /\ valResult = NoResult
  /\ prevResult = NoResult
  /\ pcMain = "start"
  /\ args = NoArgs
  /\ data = <<>>
  /\ sampleIdx = 0
  /\ csvFile = NoFile
  /\ pcCsv = "none"
  /\ writeHeader = FALSE
  /\ sinks = <<>>
  /\ runs = 0
  /\ csvCalls = 0
  /\ pyDivision = "true"
  /\ impl = "client_python"
  /\ ctorArgs = [project_id |-> <<"p">>, device_id |-> <<"a">>]
  /\ logger = [_project_id |-> <<"p">>, _device_id |-> <<"a">>]
  /\ call = IdleCalls

\* validate_measurement(measurement) is called (again) on the same message.
ValidateCall ==
  /\ pcVal \in {"idle", "done"}
  /\ pcVal' = "loop"
  /\ fieldIdx' = 1
  /\ visited' = <<>>
  /\ prevResult' = valResult
  /\ valResult' = NoResult
  /\ UNCHANGED <<rules, msg>>
  /\ UNCHANGED <<mainVars, loggerVars>>

\* One iteration of "for field_desc, value in measurement.ListFields()".
ValidateFieldStep(msgAfter) ==
  /\ pcVal = "loop"
  /\ fieldIdx <= Len(ListFields(msg))
  /\ LET f == ListFields(msg)[fieldIdx]
         c == CheckField(rules, msg, f)
     IN /\ visited' = IF c.kind = "skip" THEN visited ELSE Append(visited, f)
        /\ IF c.kind \in {"skip", "pass"}
           THEN /\ fieldIdx' = fieldIdx + 1
                /\ UNCHANGED <<pcVal, valResult>>
           ELSE /\ valResult' = c
                /\ pcVal' = "done"
                /\ UNCHANGED fieldIdx
  /\ msg' = msgAfter
  /\ UNCHANGED <<rules, prevResult>>
  /\ UNCHANGED <<mainVars, loggerVars>>

ValidateFieldClearsField ==
  ValidateFieldStep([msg EXCEPT !.device_id = <<>>])
ValidateField == ValidateFieldStep(msg)

\* The loop ends without raising: the function returns None.
ValidateReturn ==
  /\ pcVal = "loop"
  /\ fieldIdx > Len(ListFields(msg))
  /\ valResult' = Accepted
  /\ pcVal' = "done"
  /\ UNCHANGED <<rules, msg, fieldIdx, visited, prevResult>>
  /\ UNCHANGED <<mainVars, loggerVars>>

NextValidate ==
  \/ ValidateCall
  \/ ValidateField
  \/ ValidateReturn


(***************************************************************************)
(* GCPLogger (both copies)                                                 *)
(***************************************************************************)
CallSites == {"site1", "site2"}

\* Readings a caller may pass: Python ints and floats.
Readings == {PyInt(1), PyInt(2), PyFloat(1, 2)}
ValueLists == UNION {[1..k -> Readings] : k \in 0..MaxValues}

\* sum(values): starts from the int 0; the result is an int only if every
\* element is an int.
PyAdd(x, y) ==
  LET q == Norm(x.n * y.d + y.n * x.d, x.d * y.d)
  IN [kind |-> IF x.kind = "int" /\ y.kind = "int" THEN "int" ELSE "float",
      n |-> q.n, d |-> q.d]
RECURSIVE PySumFrom(_, _)
PySumFrom(values, i) ==
  IF i > Len(values) THEN PyInt(0)
  ELSE PyAdd(values[i], PySumFrom(values, i + 1))
PySum(values) == PySumFrom(values, 1)

\* x / k for an int k > 0. The sources do not say which interpreter runs
\* them (log_temp.py is Python 2 only; nothing imports division from
\* __future__): on two ints the quotient is floored by Python 2 and exact
\* under Python 3; with a float operand it is exact under both.
PyDiv(div, x, k) ==
  IF x.kind = "int" /\ div = "floor"
  THEN PyInt(x.n \div k)
  ELSE PyFloat(x.n, x.d * k)

Raised(kind) == [ok |-> FALSE, error |-> kind, value |-> PyInt(0)]
Value(v) == [ok |-> TRUE, error |-> None, value |-> v]

\* client_python: mean_temp = sum(values) / len(values)
MeanClientZeroWhenEmpty(div, values) ==
  IF Len(values) = 0 THEN Value(PyInt(0))
  ELSE Value(PyDiv(div, PySum(values), Len(values)))
MeanClient(div, values) ==
  IF Len(values) = 0 THEN Raised("ZeroDivisionError")
  ELSE Value(PyDiv(div, PySum(values), Len(values)))

\* loggers: mean_temp = float(sum(values)) / len(values)
MeanLoggers(div, values) ==
  IF Len(values) = 0 THEN Raised("ZeroDivisionError")
  ELSE Value(PyDiv(div, PyFloatOf(PySum(values)), Len(values)))

MeanTemp(which, div, values) ==
  IF which = "client_python" THEN MeanClient(div, values)
  ELSE MeanLoggers(div, values)

\* measurement_pb2.Measurement(device_id=self._device_id,
\*                             timestamp=timestamp_proto, temp=mean_temp)
BuildProtoUsesProjectId(self, timestamp_proto, mean_temp) ==
  Measurement(self._project_id, timestamp_proto, mean_temp)
BuildProto(self, timestamp_proto, mean_temp) ==
  Measurement(self._device_id, timestamp_proto, mean_temp)

\* GCPLogger.__init__(self, project_id, device_id)
NewLogger(project_id, device_id) ==
  [_project_id |-> project_id, _device_id |-> device_id]

\* A call site with no call in progress, and a frame's unset proto.
NoProto == IdleMsg
IdleFrame == IdleCallFrame

DeviceIds == {<<"a">>, <<"b">>}
ProjectIds == {<<"p">>}
\* Schemas the loggers run under: device_id must start with "a"; temp
\* carries a regex or not.
LoggerSchemas ==
  {sc \in Schemas :
     /\ sc["device_id"] = [has |-> TRUE, lit |-> <<"a">>, end |-> FALSE]
     /\ sc["timestamp"] = NoRule}

InitLogger ==
  /\ pyDivision \in {"floor", "true"}
  /\ impl \in {"client_python", "loggers"}
  /\ \E p \in ProjectIds, d \in DeviceIds :
       /\ ctorArgs = [project_id |-> p, device_id |-> d]
       /\ logger = NewLogger(p, d)
  /\ call = [c \in CallSites |-> IdleFrame]
  /\ rules \in LoggerSchemas
  /\ msg = IdleMsg
  /\ pcVal = "idle"
  /\ fieldIdx = 0
  /\ visited = <<>>
  /\ valResult = NoResult
  /\ prevResult = NoResult
  /\ pcMain = "start"
  /\ args = NoArgs
  /\ data = <<>>
  /\ sampleIdx = 0
  /\ csvFile = NoFile
  /\ pcCsv = "none"
  /\ writeHeader = FALSE
  /\ sinks = <<>>
  /\ runs = 0
  /\ csvCalls = 0

\* _get_proto is entered: timestamp_proto.FromDatetime(timestamp), then the
\* mean; an empty list raises out of the division.
GetProtoCall(c) ==
  /\ call[c].pc = "idle"
  /\ \E ts \in Datetimes, vs \in ValueLists :
       LET m == MeanTemp(impl, pyDivision, vs)
           f == [call[c] EXCEPT !.timestamp = ts, !.values = vs,
                                !.timestamp_proto = FromDatetime(ts)]
       IN call' = [call EXCEPT ![c] =
            IF m.ok
            THEN [f EXCEPT !.mean_temp = m.value, !.pc = "construct"]
            ELSE [f EXCEPT !.pc = "done",
                           !.result = [kind |-> m.error, proto |-> NoProto]]]
  /\ UNCHANGED <<pyDivision, impl, logger, ctorArgs>>
  /\ UNCHANGED <<mainVars, valVars>>

\* The Measurement is constructed from self._device_id and the locals. The
\* loggers copy returns it at once; client_python goes on to validate it.
GetProtoConstruct(c) ==
  /\ call[c].pc = "construct"
  /\ LET pr == BuildProto(logger, call[c].timestamp_proto, call[c].mean_temp)
     IN call' = [call EXCEPT ![c] =
          IF impl = "client_python"
          THEN [@ EXCEPT !.proto = pr, !.pc = "validate"]
          ELSE [@ EXCEPT !.proto = pr, !.pc = "done",
                         !.result = [kind |-> "returned", proto |-> pr]]]
  /\ UNCHANGED <<pyDivision, impl, logger, ctorArgs>>
  /\ UNCHANGED <<mainVars, valVars>>

\* client_python only: validate_measurement(proto), then return proto; an
\* exception raised by the validation propagates to the caller.
GetProtoValidate(c) ==
  /\ call[c].pc = "validate"
  /\ LET v == validate_measurement(rules, call[c].proto)
     IN call' = [call EXCEPT ![c] =
          [@ EXCEPT !.pc = "done",
                    !.attempted = TRUE,
                    !.validated = (v.kind = "accepted"),
                    !.result = IF v.kind = "accepted"
                               THEN [kind |-> "returned", proto |-> call[c].proto]
                               ELSE [kind |-> v.kind, proto |-> NoProto]]]
  /\ UNCHANGED <<pyDivision, impl, logger, ctorArgs>>
  /\ UNCHANGED <<mainVars, valVars>>

\* The caller has taken the result (or the exception); the frame is gone.
GetProtoDone(c) ==
  /\ call[c].pc = "done"
  /\ call' = [call EXCEPT ![c] = IdleFrame]
  /\ UNCHANGED <<pyDivision, impl, logger, ctorArgs>>
  /\ UNCHANGED <<mainVars, valVars>>

NextLogger ==
  \E c \in CallSites :
    \/ GetProtoCall(c)
    \/ GetProtoConstruct(c)
    \/ GetProtoValidate(c)
    \/ GetProtoDone(c)

(***************************************************************************)
(* Specifications                                                          *)
(***************************************************************************)
SpecMain == InitMain /\ [][NextMain]_vars

SpecValidate == InitValidate /\ [][NextValidate]_vars

SpecLogger == InitLogger /\ [][NextLogger]_vars

Init == InitMain
Next == NextMain
Spec == Init /\ [][Next]_vars


(***************************************************************************)
(* Properties of log_temp.py (checked under SpecMain)                      *)
(***************************************************************************)
Emitted(sink, d) == <<[sink |-> sink, row |-> d]>>

\* C9: a run that reaches its end has written the collected row to the CSV
\* file iff a log file was given, then to the spreadsheet iff a keyfile was
\* given, and to standard output iff neither was given; nothing else is
\* emitted, and the file's last row is that row.
C9_StdoutIffNoOtherSink ==
  pcMain = "done" =>
    /\ sinks = (IF args.log_file # None THEN Emitted("file", data) ELSE <<>>)
               \o (IF args.keyfile # None THEN Emitted("sheet", data) ELSE <<>>)
               \o (IF args.log_file = None /\ args.keyfile = None
                   THEN Emitted("stdout", data) ELSE <<>>)
    /\ args.log_file # None =>
         /\ csvFile.rows # <<>>
         /\ csvFile.rows[Len(csvFile.rows)] = DataRow(data)

\* A run given both a log file and a keyfile has written file, then sheet.
C9_Witness ==
  /\ pcMain = "done"
  /\ args.log_file # None /\ args.keyfile # None
  /\ sinks = Emitted("file", data) \o Emitted("sheet", data)

\* Between log_to_csv calls the file is: nothing before the first call,
\* afterwards one header row followed by one data row per call.
CsvShape ==
  IF csvCalls = 0 THEN csvFile.rows = <<>>
  ELSE /\ Len(csvFile.rows) = csvCalls + 1
       /\ csvFile.rows[1].kind = "header"
       /\ \A i \in 2..Len(csvFile.rows) : csvFile.rows[i].kind = "data"

\* A step keeps every row already in the file; a returning call has appended
\* its data row last; any other change is the first call's header row, put
\* into the still empty file.
CsvAppendOnly ==
  /\ IsPrefix(csvFile.rows, csvFile'.rows)
  /\ csvCalls' # csvCalls =>
       /\ csvCalls' = csvCalls + 1
       /\ csvFile'.rows = Append(csvFile.rows, DataRow(data))
  /\ (csvCalls' = csvCalls /\ csvFile'.rows # csvFile.rows) =>
       /\ csvCalls = 0
       /\ csvFile.rows = <<>>
       /\ csvFile'.rows = <<HeaderRow(args.num_samples)>>

\* C10: on a file that starts out missing or empty, the header row is
\* written exactly once, by the first log_to_csv call and before its data
\* row; every call appends exactly one data row after the earlier content,
\* and no step rewrites a header or alters a row already in the file.
C10_HeaderOnceThenAppend ==
  /\ [](pcCsv = "none" => CsvShape)
  /\ [][CsvAppendOnly]_vars

\* Two calls have returned: header, first row, second row.
C10_Witness ==
  /\ csvCalls = 2
  /\ pcCsv = "none"
  /\ Len(csvFile.rows) = 3
  /\ csvFile.rows[1].kind = "header"

(***************************************************************************)
(* Properties of validate_measurement (checked under SpecValidate)         *)
(***************************************************************************)
Digits == <<"0", "1", "2", "3", "4", "5", "6", "7", "8", "9">>

\* str(value) of a field's value: the string itself, str of an
\* integer-valued float ("1.0"), the text format of a Timestamp after the
\* epoch (it starts "seconds: 1").
Render(f, m) ==
  IF f = "device_id" THEN m.device_id
  ELSE IF f = "temp" THEN <<Digits[m.temp.n + 1], ".", "0">>
  ELSE <<"s", "e", "c", "o", "n", "d", "s", ":", " ",
         Digits[m.timestamp.seconds + 1]>>

\* Field f is set, carries a rule, and its rendered value fails the rule.
Offends(f) ==
  IsSet(msg, f) /\ rules[f].has /\ ~ReMatch(rules[f], Render(f, msg))
Offenders ==
  {i \in 1..Len(ListFields(msg)) : Offends(ListFields(msg)[i])}
FirstOffender ==
  ListFields(msg)[CHOOSE i \in Offenders : \A j \in Offenders : i <= j]

\* C4: when two or more fields violate their rules, the validation raises
\* one InvalidProtoError naming the first offending field in field order,
\* with that field's value and regex, and tests no field after it.
C4_FirstOffenderReported ==
  (pcVal = "done" /\ Cardinality(Offenders) >= 2) =>
    /\ valResult = InvalidProtoError(FirstOffender,
                                     Render(FirstOffender, msg),
                                     rules[FirstOffender])
    /\ visited # <<>>
    /\ visited[Len(visited)] = FirstOffender

\* Some leading substring of s, taken as a string of its own, matches the
\* pattern.
SomePrefixMatches(regex, s) ==
  \E k \in 0..Len(s) : SubSeq(s, 1, k) = regex.lit

\* The string field f has been tested and rejected.
Rejected(f) ==
  valResult.kind = "InvalidProtoError" /\ valResult.field = f
Tested == {visited[i] : i \in 1..Len(visited)}

C6_AcceptsIffAllRulesHold ==
  pcVal = "done" =>
    /\ valResult.kind \in {"accepted", "InvalidProtoError"}
    /\ valResult.kind = "accepted" <=> \A f \in Fields : ~Offends(f)

\* C7: no step of the validation changes the Measurement or the rules, and
\* a validation of a Measurement validated before ends with the same
\* outcome (accepted, or the same field, value and regex reported).
C7_Idempotent ==
  [][/\ msg' = msg
     /\ rules' = rules
     /\ (pcVal' = "done" /\ prevResult'.kind # "none") =>
          valResult' = prevResult']_vars

\* A second validation has rejected the Measurement as the first one did.
C7_Witness ==
  /\ pcVal = "done"
  /\ prevResult.kind = "InvalidProtoError"
  /\ valResult = prevResult


(***************************************************************************)
(* Properties of GCPLogger._get_proto (checked under SpecLogger)           *)
(***************************************************************************)
Finished(c) == call[c].pc = "done"
\* The call built its record (the mean did not raise).
Built(c) ==
  call[c].pc = "validate"
  \/ (call[c].pc = "done" /\ call[c].result.kind # "ZeroDivisionError")

\* C1: a record handed back by _get_proto has been through
\* validate_measurement and was accepted by it; a record the validation
\* rejects is not handed back, the caller gets InvalidProtoError.
C1_ReturnedOnlyIfValidated ==
  \A c \in CallSites :
    /\ call[c].result.kind = "returned" => call[c].validated
    /\ (Finished(c) /\ Built(c)
        /\ validate_measurement(rules, call[c].proto).kind = "InvalidProtoError")
       => call[c].result.kind = "InvalidProtoError"

ExactMean(values) ==
  PyFloat(PySum(values).n, PySum(values).d * Len(values))

\* C3: the temp of the record built from a non-empty list is values[0] for
\* one reading and otherwise the exact (non-truncated) arithmetic mean.
C3_TempIsExactMean ==
  \A c \in CallSites :
    Built(c) =>
      call[c].proto.temp =
        IF Len(call[c].values) = 1 THEN ToProtoFloat(call[c].values[1])
        ELSE ExactMean(call[c].values)

\* C8: the logger's fields stay as the constructor set them, every record
\* handed back carries the constructor's device_id, and two calls given the
\* same (timestamp, values) end the same way whatever ran in between.
C8_Stateless ==
  /\ logger = NewLogger(ctorArgs.project_id, ctorArgs.device_id)
  /\ \A c \in CallSites :
       call[c].result.kind = "returned" =>
         call[c].result.proto.device_id = ctorArgs.device_id
  /\ \A c1, c2 \in CallSites :
       (/\ Finished(c1) /\ Finished(c2)
        /\ call[c1].timestamp = call[c2].timestamp
        /\ call[c1].values = call[c2].values)
       => call[c1].result = call[c2].result

\* Both call sites have been handed a record for the same input, one of
\* them while the other's call was already over.
C8_Witness ==
  /\ call["site1"].result.kind = "returned"
  /\ call["site2"].result.kind = "returned"
  /\ call["site1"].values = call["site2"].values
  /\ call["site1"].timestamp = call["site2"].timestamp
  /\ Len(call["site1"].values) = 2

====
